---- MODULE Spec2Model ----
(***************************************************************************)
(* Dual-agent debate (Pro / Con / Moderator) driven by a LangGraph state   *)
(* graph.  The repository holds two programs that build the same graph:    *)
(*   "To_Implement" : src/To_Implement.py (personas, memories, history,    *)
(*                    confidence normalisation, MAX_ROUNDS / MEMORY_CAP)   *)
(*   "app"          : src/app.py (the earlier variant: no memory, raw      *)
(*                    confidences, a hard-coded limit of 8 rounds)         *)
(* The variable `variant` says which program a behaviour is a run of.      *)
(*                                                                         *)
(* Representation.                                                         *)
(*  - A text is a sequence of one-character strings.                       *)
(*  - A confidence is a record [t, v]: t is the Python type of the value   *)
(*    ("float", "numstr" = a str spelling a number, "text" = any other     *)
(*    str, "none" = None / key not set) and v is the number in hundredths  *)
(*    (0.75 is 75).                                                        *)
(*  - A persona is the set of keys of its dict.                            *)
(*  - A key of the graph state that was never set reads as the empty text  *)
(*    or as the confidence None.                                           *)
(*  - One turn is one action: a node has a single suspension point (the    *)
(*    chain's invoke) and turns never overlap.                             *)
(***************************************************************************)
EXTENDS Integers, Sequences, FiniteSets, TLC

\* ---------------------------------------------------------------- bounds
MaxRoundLimit == 3      \* MAX_ROUNDS is drawn from 0..MaxRoundLimit
MaxMemoryCap  == 2      \* MEMORY_CAP is drawn from 1..MaxMemoryCap
ExtraRounds   == 2      \* rounds a long debate runs beyond the history cap
MaxListLen    == 4      \* longest list cap_memory_list is applied to
MaxCapArg     == 5      \* largest cap cap_memory_list is applied with
ConfidenceSpread == 50  \* how far below 0.0 / above 1.0 a raw confidence goes

\* ------------------------------------------------------ program constants
APP_ROUNDS      == 8
HISTORY_CAP     == 64
SUMMARY_PREFIX  == 180
PRO_FALLBACK    == 75
CON_FALLBACK    == 70
MODERATOR_FALLBACK == 80

Variants == {"To_Implement", "app"}

\* ------------------------------------------------------------------ texts
Whitespace == {" ", "\n", "\t"}

NONE_SENTINEL == <<"(", "n", "o", "n", "e", ")">>

QUESTION == <<"Q">>

Min(a, b) == IF a <= b THEN a ELSE b
Max(a, b) == IF a >= b THEN a ELSE b

RECURSIVE lstrip(_)
lstrip(s) == IF s # <<>> /\ Head(s) \in Whitespace THEN lstrip(Tail(s)) ELSE s

RECURSIVE rstrip(_)
rstrip(s) ==
    IF s # <<>> /\ s[Len(s)] \in Whitespace
    THEN rstrip(SubSeq(s, 1, Len(s) - 1))
    ELSE s

\* str.strip()
strip(s) == rstrip(lstrip(s))

\* s[:n]
Prefix(s, n) == SubSeq(s, 1, Min(n, Len(s)))

\* x or default, for a str x
OrElse(s, default) == IF s = <<>> THEN default ELSE s

\* "\n".join(list)
RECURSIVE join(_)
join(list) ==
    IF list = <<>> THEN <<>>
    ELSE IF Len(list) = 1 THEN list[1]
    ELSE list[1] \o <<"\n">> \o join(Tail(list))

\* ------------------------------------------------------------ confidences
Float(n)   == [t |-> "float",  v |-> n]
NumStr(n)  == [t |-> "numstr", v |-> n]
NotANumber == [t |-> "text",   v |-> 0]
None       == [t |-> "none",   v |-> 0]
ValidationError == [t |-> "error", v |-> 0]

\* what the model can put in the confidence field of its structured reply
RawConfidences ==
    {Float(-50), Float(50), Float(150), NumStr(50), NotANumber, None}

\* what the model can put in the argument / answer field
ArgTexts == {<<>>, <<" ", "a", " ">>}
ModeratorTexts == {<<>>, <<"m">>}

\* pydantic validation of a field declared `float`
DecodeFloat(raw) ==
    CASE raw.t = "float"  -> {raw}
      [] raw.t = "numstr" -> {Float(raw.v)}
      [] OTHER            -> {ValidationError}

\* pydantic validation of a field declared `str` (a number is rejected or
\* converted to its spelling, depending on the pydantic major version)
DecodeStr(raw) ==
    CASE raw.t \in {"numstr", "text"} -> {raw}
      [] raw.t = "float"              -> {ValidationError, NumStr(raw.v)}
      [] OTHER                        -> {ValidationError}

\* the upper clamp left out: max(0.0, float(x))
normalize_no_upper_clamp(x, fallback) ==
    IF x.t \in {"float", "numstr"}
    THEN Float(Max(0, x.v))
    ELSE Float(fallback)

\* try: conf = max(0.0, min(1.0, float(x))) except Exception: conf = fallback
normalize(x, fallback) ==
    IF x.t \in {"float", "numstr"}
    THEN Float(Max(0, Min(100, x.v)))
    ELSE Float(fallback)

\* --------------------------------------------------------------- personas
PersonaAttributes == {"title", "beliefs", "style", "goal"}

PRO_PERSONA == PersonaAttributes \cup {"default_confidence_range"}
CON_PERSONA == PersonaAttributes \cup {"default_confidence_range"}
MODERATOR_PERSONA == PersonaAttributes

\* the persona keys a prompt template is rendered from.  The wording of the
\* templates belongs to the prompt layer; what is kept of it is the persona
\* attributes each names: title, beliefs, style and goal in all three
\* (line 208 spells the last one goal', read here as goal).
PromptKeys(node) == PersonaAttributes

\* ---------------------------------------------------------------- helpers
\* mem_list[:cap]: keeps the oldest entries instead of the newest
cap_memory_list_head(mem_list, cap) ==
    IF mem_list = <<>> THEN <<>>
    ELSE SubSeq(mem_list, 1, Min(cap, Len(mem_list)))

\* mem_list[-cap:]  (and -0 is 0: a cap of 0 keeps the whole list)
cap_memory_list(mem_list, cap) ==
    IF mem_list = <<>> THEN <<>>
    ELSE IF cap = 0 \/ cap >= Len(mem_list) THEN mem_list
    ELSE SubSeq(mem_list, Len(mem_list) - cap + 1, Len(mem_list))

\* f"Round {round_idx}: Pro -> {pro_text[:180]} | Con -> {con_text[:180]}"
summarize_round_summary(pro_text, con_text, round_idx) ==
    [round |-> round_idx,
     pro   |-> Prefix(pro_text, SUMMARY_PREFIX),
     con   |-> Prefix(con_text, SUMMARY_PREFIX)]

\* ------------------------------------------------------------------ state
VARIABLES
    variant,            \* which program runs
    max_rounds,         \* MAX_ROUNDS (To_Implement) / the literal 8 (app)
    memory_cap,         \* MEMORY_CAP
    llm_texts,          \* the argument texts the model draws its replies
                        \* to Pro and Con from in this run
    pc,                 \* the graph node that runs next: START, proNode,
                        \* conNode, moderatorNode, END
    raised,             \* the exception graph.invoke ended with, or "none"
    question,
    numberOfRounds,
    pro_answer,
    con_challenge,
    final_answer,
    pro_confidence,
    con_confidence,
    final_confidence,
    pro_memory,
    con_memory,
    debate_history,
    pro_persona,
    con_persona,
    moderator_persona,
    request,            \* the inputs of the latest chain invoke
    reply,              \* the latest structured reply of the model, as sent
    llm_calls,          \* number of calls that reached the model
    pro_turns,          \* completed turns of each node
    con_turns,
    mod_turns,
    pro_appended,       \* every snippet proNode appended, in order
    con_appended,       \* every snippet conNode appended, in order
    call,               \* a helper applied on its own: its arguments
    result              \* and what it returned

config == <<variant, max_rounds, memory_cap, llm_texts>>

\* the GraphState dict
state == <<question, numberOfRounds, pro_answer, con_challenge, final_answer,
           pro_confidence, con_confidence, final_confidence,
           pro_memory, con_memory, debate_history,
           pro_persona, con_persona, moderator_persona>>

turns == <<pro_turns, con_turns, mod_turns, pro_appended, con_appended>>

\* a helper function applied outside a debate
applied == <<call, result>>

vars == <<config, pc, raised, state, request, reply, llm_calls, turns,
          applied>>

Nodes == {"proNode", "conNode", "moderatorNode"}

NoRequest == [node |-> "none", question |-> <<>>, opponent |-> <<>>,
              pro_answer |-> <<>>, memory |-> <<>>, history |-> <<>>,
              pro_confidence |-> None, con_confidence |-> None]

NoReply == [node |-> "none", text |-> <<>>, conf |-> None]

\* a persona dict as bound, or with one of its keys missing
PersonaInputs(persona) ==
    {persona} \cup {persona \ {a} : a \in PersonaAttributes}

NoCall == [fn |-> "none", list |-> <<>>, cap |-> 0, x |-> None,
           fallback |-> 0]

\* initial_state of __main__, for one setting of the configuration constants,
\* with numberOfRounds set to `start`
InitToImplementFrom(start) ==
    /\ variant = "To_Implement"
    /\ max_rounds \in 0..MaxRoundLimit
    /\ memory_cap \in 1..MaxMemoryCap
    /\ question = QUESTION
    /\ numberOfRounds = start
    /\ pro_answer = <<>>
    /\ con_challenge = <<>>
    /\ final_answer = <<>>
    /\ pro_confidence = Float(0)
    /\ con_confidence = Float(0)
    /\ final_confidence = Float(0)
    /\ pro_memory = <<>>
    /\ con_memory = <<>>
    /\ debate_history = <<>>
    /\ pro_persona \in PersonaInputs(PRO_PERSONA)
    /\ con_persona \in PersonaInputs(CON_PERSONA)
    /\ moderator_persona \in PersonaInputs(MODERATOR_PERSONA)

InitToImplement == InitToImplementFrom(0)

\* inputs of app.py: question, numberOfRounds and con_challenge only, with
\* numberOfRounds set to `start`
InitAppFrom(start) ==
    /\ variant = "app"
    /\ max_rounds = APP_ROUNDS
    /\ memory_cap = 1
    /\ question = QUESTION
    /\ numberOfRounds = start
    /\ pro_answer = <<>>
    /\ con_challenge = <<>>
    /\ final_answer = <<>>
    /\ pro_confidence = None
    /\ con_confidence = None
    /\ final_confidence = None
    /\ pro_memory = <<>>
    /\ con_memory = <<>>
    /\ debate_history = <<>>
    /\ pro_persona = {}
    /\ con_persona = {}
    /\ moderator_persona = {}

InitApp == InitAppFrom(0)

\* nothing has run yet
InitRun ==
    /\ pc = "START"
    /\ raised = "none"
    /\ request = NoRequest
    /\ reply = NoReply
    /\ llm_calls = 0
    /\ pro_turns = 0
    /\ con_turns = 0
    /\ mod_turns = 0
    /\ pro_appended = <<>>
    /\ con_appended = <<>>
    /\ call = NoCall
    /\ result = <<>>

Init ==
    /\ InitToImplement \/ InitApp
    /\ llm_texts = ArgTexts
    /\ InitRun

\* ------------------------------------------------------------ graph wiring
\* numberOfRounds > MAX_ROUNDS: one exchange too many
condition_strict(rounds, limit) ==
    IF rounds > limit THEN "moderatorNode" ELSE "proNode"

\* a node name the graph does not have
condition_misnamed(rounds, limit) ==
    IF rounds >= limit THEN "moderator" ELSE "proNode"

\* To_Implement: numberOfRounds >= MAX_ROUNDS
condition(rounds, limit) ==
    IF rounds >= limit THEN "moderatorNode" ELSE "proNode"

\* app: numberOfRounds == 8
condition_app(rounds) ==
    IF rounds = APP_ROUNDS THEN "moderatorNode" ELSE "proNode"

\* the edge out of proNode wired to the moderator
NextNode_skip_con(node, rounds) ==
    CASE node = "START"         -> "proNode"
      [] node = "proNode"       -> "moderatorNode"
      [] node = "conNode"       -> "proNode"
      [] node = "moderatorNode" -> "END"

\* the round limit tested on entry as well, before the first Pro turn
NextNode_check_at_start(node, rounds) ==
    CASE node = "START"         -> IF variant = "app"
                                   THEN condition_app(rounds)
                                   ELSE condition(rounds, max_rounds)
      [] node = "proNode"       -> "conNode"
      [] node = "conNode"       -> IF variant = "app"
                                   THEN condition_app(rounds)
                                   ELSE condition(rounds, max_rounds)
      [] node = "moderatorNode" -> "END"

\* builder.add_edge / add_conditional_edges: the node that follows `node`
NextNode(node, rounds) ==
    CASE node = "START"         -> "proNode"
      [] node = "proNode"       -> "conNode"
      [] node = "conNode"       -> IF variant = "app"
                                   THEN condition_app(rounds)
                                   ELSE condition(rounds, max_rounds)
      [] node = "moderatorNode" -> "END"

\* graph.invoke(initial_state) enters the graph at START
Start ==
    /\ pc = "START"
    /\ raised = "none"
    /\ pc' = NextNode("START", numberOfRounds)
    /\ UNCHANGED <<config, applied, raised, state, request, reply, llm_calls, turns>>

\* the persona a node's prompt is rendered with
PersonaOf(node) ==
    CASE node = "proNode"       -> pro_persona
      [] node = "conNode"       -> con_persona
      [] node = "moderatorNode" -> moderator_persona

\* the prompt of `node` can be rendered (app's prompts read no persona)
Renders(node) == variant = "app" \/ PromptKeys(node) \subseteq PersonaOf(node)

\* ------------------------------------------------- To_Implement.py: nodes
\* the inputs proNode passes to its chain
proNodeInputs ==
    [NoRequest EXCEPT
        !.node     = "proNode",
        !.question = question,
        !.opponent = OrElse(con_challenge, NONE_SENTINEL),
        !.memory   = IF pro_memory # <<>> THEN join(pro_memory)
                     ELSE NONE_SENTINEL]

\* an empty snippet left out of the memory
proNodeUpdate_skip_empty(answer, confidence) ==
    LET snippet == strip(OrElse(answer, <<>>)) IN
    [pro_answer     |-> answer,
     pro_confidence |-> normalize(confidence, PRO_FALLBACK),
     pro_memory     |-> IF snippet = <<>> THEN pro_memory
                        ELSE cap_memory_list(pro_memory \o <<snippet>>,
                                             memory_cap),
     snippet        |-> snippet]

\* the dict proNode returns for a decoded response
proNodeUpdate(answer, confidence) ==
    LET conf    == normalize(confidence, PRO_FALLBACK)
        snippet == strip(OrElse(answer, <<>>))
        updated_pro_memory ==
            cap_memory_list(pro_memory \o <<snippet>>, memory_cap)
    IN  [pro_answer     |-> answer,
         pro_confidence |-> conf,
         pro_memory     |-> updated_pro_memory,
         snippet        |-> snippet]

proNode ==
    /\ variant = "To_Implement"
    /\ pc = "proNode"
    /\ raised = "none"
    /\ Renders("proNode")
    /\ \E text \in llm_texts, raw \in RawConfidences :
         \E decoded \in DecodeFloat(raw) :
            /\ decoded # ValidationError
            /\ LET u == proNodeUpdate(text, decoded) IN
                 /\ pro_answer' = u.pro_answer
                 /\ pro_confidence' = u.pro_confidence
                 /\ pro_memory' = u.pro_memory
                 /\ pro_appended' = Append(pro_appended, u.snippet)
            /\ reply' = [node |-> "proNode", text |-> text, conf |-> raw]
    /\ request' = proNodeInputs
    /\ llm_calls' = llm_calls + 1
    /\ pro_turns' = pro_turns + 1
    /\ pc' = NextNode("proNode", numberOfRounds)
    /\ UNCHANGED <<config, applied, raised, question, numberOfRounds, con_challenge,
                   final_answer, con_confidence, final_confidence,
                   con_memory, debate_history,
                   pro_persona, con_persona, moderator_persona,
                   con_turns, mod_turns, con_appended>>

conNodeInputs ==
    [NoRequest EXCEPT
        !.node       = "conNode",
        !.pro_answer = pro_answer,
        !.memory     = IF con_memory # <<>> THEN join(con_memory)
                       ELSE NONE_SENTINEL]

\* the round counter stepped twice in one Con turn
conNodeUpdate_double_increment(answer, confidence) ==
    [con_challenge  |-> answer,
     con_confidence |-> normalize(confidence, CON_FALLBACK),
     numberOfRounds |-> numberOfRounds + 2,
     con_memory     |-> cap_memory_list(
                            con_memory \o <<strip(OrElse(answer, <<>>))>>,
                            memory_cap),
     debate_history |-> debate_history,
     snippet        |-> strip(OrElse(answer, <<>>))]

\* the summary tagged with the round number before the increment
conNodeUpdate_tag_before_increment(answer, confidence) ==
    LET snippet == strip(OrElse(answer, <<>>)) IN
    [con_challenge  |-> answer,
     con_confidence |-> normalize(confidence, CON_FALLBACK),
     numberOfRounds |-> numberOfRounds + 1,
     con_memory     |-> cap_memory_list(con_memory \o <<snippet>>, memory_cap),
     debate_history |-> cap_memory_list(
                            debate_history \o
                            <<summarize_round_summary(pro_answer, snippet,
                                                      numberOfRounds)>>,
                            HISTORY_CAP),
     snippet        |-> snippet]

\* the dict conNode returns for a decoded response
conNodeUpdate(answer, confidence) ==
    LET conf    == normalize(confidence, CON_FALLBACK)
        snippet == strip(OrElse(answer, <<>>))
        updated_con_memory ==
            cap_memory_list(con_memory \o <<snippet>>, memory_cap)
        next_round == numberOfRounds + 1
        round_summary ==
            summarize_round_summary(pro_answer, snippet, next_round)
        updated_history ==
            cap_memory_list(debate_history \o <<round_summary>>, HISTORY_CAP)
    IN  [con_challenge  |-> answer,
         con_confidence |-> conf,
         numberOfRounds |-> next_round,
         con_memory     |-> updated_con_memory,
         debate_history |-> updated_history,
         snippet        |-> snippet]

conNode ==
    /\ variant = "To_Implement"
    /\ pc = "conNode"
    /\ raised = "none"
    /\ Renders("conNode")
    /\ \E text \in llm_texts, raw \in RawConfidences :
         \E decoded \in DecodeFloat(raw) :
            /\ decoded # ValidationError
            /\ LET u == conNodeUpdate(text, decoded) IN
                 /\ con_challenge' = u.con_challenge
                 /\ con_confidence' = u.con_confidence
                 /\ numberOfRounds' = u.numberOfRounds
                 /\ con_memory' = u.con_memory
                 /\ debate_history' = u.debate_history
                 /\ con_appended' = Append(con_appended, u.snippet)
            /\ reply' = [node |-> "conNode", text |-> text, conf |-> raw]
    /\ request' = conNodeInputs
    /\ llm_calls' = llm_calls + 1
    /\ con_turns' = con_turns + 1
    /\ pc' = NextNode("conNode", numberOfRounds')
    /\ UNCHANGED <<config, applied, raised, question, pro_answer, final_answer,
                   pro_confidence, final_confidence, pro_memory,
                   pro_persona, con_persona, moderator_persona,
                   pro_turns, mod_turns, pro_appended>>

moderatorNodeInputs ==
    [NoRequest EXCEPT
        !.node           = "moderatorNode",
        !.question       = question,
        !.pro_answer     = pro_answer,
        !.opponent       = con_challenge,
        !.pro_confidence = pro_confidence,
        !.con_confidence = con_confidence,
        !.history        = IF debate_history # <<>> THEN debate_history
                           ELSE <<NONE_SENTINEL>>]

\* the dict moderatorNode returns for a decoded response
moderatorNodeUpdate(answer, confidence) ==
    [final_answer     |-> answer,
     final_confidence |-> normalize(confidence, MODERATOR_FALLBACK)]

\* a Moderator that also keeps a memory: its answer appended to pro_memory
moderatorNode_appends_memory ==
    /\ variant = "To_Implement"
    /\ pc = "moderatorNode"
    /\ raised = "none"
    /\ Renders("moderatorNode")
    /\ \E text \in ModeratorTexts, raw \in RawConfidences :
         \E decoded \in DecodeFloat(raw) :
            /\ decoded # ValidationError
            /\ LET u == moderatorNodeUpdate(text, decoded) IN
                 /\ final_answer' = u.final_answer
                 /\ final_confidence' = u.final_confidence
                 /\ pro_memory' = cap_memory_list(
                                    pro_memory \o <<strip(text)>>, memory_cap)
            /\ reply' = [node |-> "moderatorNode", text |-> text, conf |-> raw]
    /\ request' = moderatorNodeInputs
    /\ llm_calls' = llm_calls + 1
    /\ mod_turns' = mod_turns + 1
    /\ pc' = NextNode("moderatorNode", numberOfRounds)
    /\ UNCHANGED <<config, applied, raised, question, numberOfRounds,
                   pro_answer, con_challenge, pro_confidence, con_confidence,
                   con_memory, debate_history,
                   pro_persona, con_persona, moderator_persona,
                   pro_turns, con_turns, pro_appended, con_appended>>

moderatorNode ==
    /\ variant = "To_Implement"
    /\ pc = "moderatorNode"
    /\ raised = "none"
    /\ Renders("moderatorNode")
    /\ \E text \in ModeratorTexts, raw \in RawConfidences :
         \E decoded \in DecodeFloat(raw) :
            /\ decoded # ValidationError
            /\ LET u == moderatorNodeUpdate(text, decoded) IN
                 /\ final_answer' = u.final_answer
                 /\ final_confidence' = u.final_confidence
            /\ reply' = [node |-> "moderatorNode", text |-> text, conf |-> raw]
    /\ request' = moderatorNodeInputs
    /\ llm_calls' = llm_calls + 1
    /\ mod_turns' = mod_turns + 1
    /\ pc' = NextNode("moderatorNode", numberOfRounds)
    /\ UNCHANGED <<config, applied, raised, question, numberOfRounds, pro_answer,
                   con_challenge, pro_confidence, con_confidence,
                   pro_memory, con_memory, debate_history,
                   pro_persona, con_persona, moderator_persona,
                   pro_turns, con_turns, pro_appended, con_appended>>

\* --------------------------------------------------------- app.py: nodes
proNodeInputs_app ==
    [NoRequest EXCEPT
        !.node     = "proNode",
        !.question = question,
        !.opponent = con_challenge]

\* the dict app's proNode returns: the confidence is stored as received
proNodeUpdate_app(answer, confidence) ==
    [pro_answer |-> answer, pro_confidence |-> confidence]

proNode_app ==
    /\ variant = "app"
    /\ pc = "proNode"
    /\ raised = "none"
    /\ \E text \in llm_texts, raw \in RawConfidences :
         \E decoded \in DecodeStr(raw) :
            /\ decoded # ValidationError
            /\ LET u == proNodeUpdate_app(text, decoded) IN
                 /\ pro_answer' = u.pro_answer
                 /\ pro_confidence' = u.pro_confidence
            /\ reply' = [node |-> "proNode", text |-> text, conf |-> raw]
    /\ request' = proNodeInputs_app
    /\ llm_calls' = llm_calls + 1
    /\ pro_turns' = pro_turns + 1
    /\ pc' = NextNode("proNode", numberOfRounds)
    /\ UNCHANGED <<config, applied, raised, question, numberOfRounds, con_challenge,
                   final_answer, con_confidence, final_confidence,
                   pro_memory, con_memory, debate_history,
                   pro_persona, con_persona, moderator_persona,
                   con_turns, mod_turns, pro_appended, con_appended>>

conNodeInputs_app ==
    [NoRequest EXCEPT !.node = "conNode", !.pro_answer = pro_answer]

conNodeUpdate_app(answer, confidence) ==
    [numberOfRounds |-> numberOfRounds + 1,
     con_challenge  |-> answer,
     con_confidence |-> confidence]

conNode_app ==
    /\ variant = "app"
    /\ pc = "conNode"
    /\ raised = "none"
    /\ \E text \in llm_texts, raw \in RawConfidences :
         \E decoded \in DecodeStr(raw) :
            /\ decoded # ValidationError
            /\ LET u == conNodeUpdate_app(text, decoded) IN
                 /\ numberOfRounds' = u.numberOfRounds
                 /\ con_challenge' = u.con_challenge
                 /\ con_confidence' = u.con_confidence
            /\ reply' = [node |-> "conNode", text |-> text, conf |-> raw]
    /\ request' = conNodeInputs_app
    /\ llm_calls' = llm_calls + 1
    /\ con_turns' = con_turns + 1
    /\ pc' = NextNode("conNode", numberOfRounds')
    /\ UNCHANGED <<config, applied, raised, question, pro_answer, final_answer,
                   pro_confidence, final_confidence,
                   pro_memory, con_memory, debate_history,
                   pro_persona, con_persona, moderator_persona,
                   pro_turns, mod_turns, pro_appended, con_appended>>

moderatorNodeInputs_app ==
    [NoRequest EXCEPT
        !.node           = "moderatorNode",
        !.question       = question,
        !.pro_answer     = pro_answer,
        !.opponent       = con_challenge,
        !.pro_confidence = pro_confidence,
        !.con_confidence = con_confidence]

moderatorNodeUpdate_app(answer, confidence) ==
    [final_answer |-> answer, final_confidence |-> confidence]

moderatorNode_app ==
    /\ variant = "app"
    /\ pc = "moderatorNode"
    /\ raised = "none"
    /\ \E text \in ModeratorTexts, raw \in RawConfidences :
         \E decoded \in DecodeFloat(raw) :
            /\ decoded # ValidationError
            /\ LET u == moderatorNodeUpdate_app(text, decoded) IN
                 /\ final_answer' = u.final_answer
                 /\ final_confidence' = u.final_confidence
            /\ reply' = [node |-> "moderatorNode", text |-> text, conf |-> raw]
    /\ request' = moderatorNodeInputs_app
    /\ llm_calls' = llm_calls + 1
    /\ mod_turns' = mod_turns + 1
    /\ pc' = NextNode("moderatorNode", numberOfRounds)
    /\ UNCHANGED <<config, applied, raised, question, numberOfRounds, pro_answer,
                   con_challenge, pro_confidence, con_confidence,
                   pro_memory, con_memory, debate_history,
                   pro_persona, con_persona, moderator_persona,
                   pro_turns, con_turns, pro_appended, con_appended>>

\* ------------------------------------------------- a node's invoke raises
\* the schema the confidence field of `node`'s structured output is decoded by
Decode(node, raw) ==
    IF variant = "app" /\ node # "moderatorNode"
    THEN DecodeStr(raw)
    ELSE DecodeFloat(raw)

TextsOf(node) == IF node = "moderatorNode" THEN ModeratorTexts ELSE llm_texts

InputsOf(node) ==
    CASE node = "proNode" ->
            IF variant = "app" THEN proNodeInputs_app ELSE proNodeInputs
      [] node = "conNode" ->
            IF variant = "app" THEN conNodeInputs_app ELSE conNodeInputs
      [] node = "moderatorNode" ->
            IF variant = "app" THEN moderatorNodeInputs_app
            ELSE moderatorNodeInputs

\* no node catches what its invoke raises, and the graph has no retry policy:
\* the exception leaves graph.invoke and the node returns no update
PropagateWithDefault(err) ==
    /\ raised' = err
    /\ pro_answer' = IF pc = "proNode" THEN NONE_SENTINEL ELSE pro_answer
    /\ con_challenge' = IF pc = "conNode" THEN NONE_SENTINEL ELSE con_challenge
    /\ final_answer' = IF pc = "moderatorNode" THEN NONE_SENTINEL
                       ELSE final_answer
    /\ UNCHANGED <<config, applied, pc, question, numberOfRounds,
                   pro_confidence, con_confidence, final_confidence,
                   pro_memory, con_memory, debate_history,
                   pro_persona, con_persona, moderator_persona, turns>>

Propagate(err) ==
    /\ raised' = err
    /\ UNCHANGED <<config, applied, pc, state, turns>>

NodeRaises ==
    /\ pc \in Nodes
    /\ raised = "none"
    /\ \/ \* the prompt reads a key the persona does not have
          /\ ~Renders(pc)
          /\ Propagate("KeyError")
          /\ UNCHANGED <<request, reply, llm_calls>>
       \/ \* the call to the model fails
          /\ Renders(pc)
          /\ Propagate("GenerationFailure")
          /\ request' = InputsOf(pc)
          /\ llm_calls' = llm_calls + 1
          /\ reply' = NoReply
       \/ \* the reply does not validate against the output schema
          /\ Renders(pc)
          /\ \E text \in TextsOf(pc), raw \in RawConfidences :
                /\ ValidationError \in Decode(pc, raw)
                /\ reply' = [node |-> pc, text |-> text, conf |-> raw]
          /\ Propagate("GenerationFailure")
          /\ request' = InputsOf(pc)
          /\ llm_calls' = llm_calls + 1

Next ==
    \/ Start
    \/ proNode
    \/ conNode
    \/ moderatorNode
    \/ proNode_app
    \/ conNode_app
    \/ moderatorNode_app
    \/ NodeRaises

\* ------------------------------------------- a debate longer than the caps
\* arguments longer than the summary prefix, padded with whitespace
LONG_PRO == <<" ">> \o [i \in 1..(SUMMARY_PREFIX + 1) |-> "p"]
LONG_CON == <<" ">> \o [i \in 1..(SUMMARY_PREFIX + 1) |-> "c"] \o <<" ">>

LongTexts == {LONG_PRO, LONG_CON}

LongConfidences == {Float(50), Float(150)}

\* MAX_ROUNDS set above the history cap
LongRounds == HISTORY_CAP + ExtraRounds

InitLong ==
    /\ variant = "To_Implement"
    /\ max_rounds = LongRounds
    /\ memory_cap \in 1..MaxMemoryCap
    /\ llm_texts = LongTexts
    /\ question = QUESTION
    /\ numberOfRounds = 0
    /\ pro_answer = <<>>
    /\ con_challenge = <<>>
    /\ final_answer = <<>>
    /\ pro_confidence = Float(0)
    /\ con_confidence = Float(0)
    /\ final_confidence = Float(0)
    /\ pro_memory = <<>>
    /\ con_memory = <<>>
    /\ debate_history = <<>>
    /\ pro_persona = PRO_PERSONA
    /\ con_persona = CON_PERSONA
    /\ moderator_persona = MODERATOR_PERSONA
    /\ InitRun

\* the same turns, the model answering Pro with LONG_PRO and Con with LONG_CON
LongNext ==
    \/ Start
    \/ proNode /\ reply'.text = LONG_PRO /\ reply'.conf \in LongConfidences
    \/ conNode /\ reply'.text = LONG_CON /\ reply'.conf \in LongConfidences
    \/ moderatorNode /\ reply'.conf \in LongConfidences
    \/ NodeRaises

SpecLong == InitLong /\ [][LongNext]_vars

\* ------------------------------- the graph invoked on a state already begun
\* the most Pro turns and the most Con turns followed in a resumed run
MaxResumeTurns == 3

\* numberOfRounds of the state handed to graph.invoke: from 0 to one above
\* the limit for To_Implement, around the 8 of app.py's condition for app
InitResume ==
    /\ \/ \E start \in 0..(MaxRoundLimit + 1) :
            /\ InitToImplementFrom(start)
            /\ start <= max_rounds + 1
            /\ pro_persona = PRO_PERSONA
            /\ con_persona = CON_PERSONA
            /\ moderator_persona = MODERATOR_PERSONA
       \/ \E start \in {APP_ROUNDS - 1, APP_ROUNDS, APP_ROUNDS + 1} :
            InitAppFrom(start)
    /\ llm_texts = ArgTexts
    /\ InitRun

ResumeNext ==
    \/ Start
    \/ proNode /\ pro_turns < MaxResumeTurns
    \/ conNode /\ con_turns < MaxResumeTurns
    \/ moderatorNode
    \/ proNode_app /\ pro_turns < MaxResumeTurns
    \/ conNode_app /\ con_turns < MaxResumeTurns
    \/ moderatorNode_app
    \/ NodeRaises

SpecResume == InitResume /\ [][ResumeNext]_vars

\* ------------------------------------------ the helpers applied on their own
\* the lists of at most MaxListLen snippets
Snippets == {<<"a">>, <<"b">>}

BoundedLists ==
    UNION {[1..n -> Snippets] : n \in 0..MaxListLen}

\* numeric confidences from ConfidenceSpread below 0.0 to as much above 1.0,
\* as a float or as a str spelling the number
NumericConfidences ==
    {Float(n) : n \in (0 - ConfidenceSpread)..(100 + ConfidenceSpread)}
    \cup {NumStr(n) : n \in (0 - ConfidenceSpread)..(100 + ConfidenceSpread)}

Fallbacks == {PRO_FALLBACK, CON_FALLBACK, MODERATOR_FALLBACK}

FunctionsInit ==
    /\ InitApp
    /\ llm_texts = ArgTexts
    /\ InitRun

apply_cap_memory_list ==
    /\ call = NoCall
    /\ \E list \in BoundedLists, cap \in 0..MaxCapArg :
          /\ call' = [NoCall EXCEPT !.fn = "cap_memory_list",
                                    !.list = list, !.cap = cap]
          /\ result' = cap_memory_list(list, cap)
    /\ UNCHANGED <<config, pc, raised, state, request, reply, llm_calls,
                   turns>>

apply_normalize ==
    /\ call = NoCall
    /\ \E x \in NumericConfidences \cup {NotANumber, None},
          fallback \in Fallbacks :
          /\ call' = [NoCall EXCEPT !.fn = "normalize",
                                    !.x = x, !.fallback = fallback]
          /\ result' = normalize(x, fallback)
    /\ UNCHANGED <<config, pc, raised, state, request, reply, llm_calls,
                   turns>>

FunctionsNext == apply_cap_memory_list \/ apply_normalize

SpecFunctions == FunctionsInit /\ [][FunctionsNext]_vars

Spec == Init /\ [][Next]_vars

\* graph.invoke runs the graph to its end: a turn that can run does run
FairSpec == Spec /\ WF_vars(Next)

\* ================================================================ claims
LastN(seq, n) ==
    LET k == Min(n, Len(seq))
    IN  [i \in 1..k |-> seq[Len(seq) - k + i]]

UnitInterval == {Float(n) : n \in 0..100}

Ended == pc = "END" \/ raised # "none"

\* C1: in a debate started with round_count = 0, round_count equals the
\* number of completed Con turns in every state; a step that completes a Con
\* turn raises it by exactly 1, a step that completes a Pro or a Moderator
\* turn leaves it unchanged, and no step lowers it.
C1_RoundCountCountsConTurns ==
    /\ [](numberOfRounds = con_turns)
    /\ [][/\ numberOfRounds' >= numberOfRounds
          /\ (con_turns' # con_turns => numberOfRounds' = numberOfRounds + 1)
          /\ (pro_turns' # pro_turns => numberOfRounds' = numberOfRounds)
          /\ (mod_turns' # mod_turns => numberOfRounds' = numberOfRounds)
         ]_vars

C1_Witness ==
    /\ con_turns = 2
    /\ numberOfRounds = 2
    /\ pro_turns = 3
    /\ pc = "conNode"

\* C2: with a round limit R >= 1, Pro and Con turns strictly alternate
\* starting with Pro, no more than R exchanges are ever started, the
\* Moderator is entered only after exactly R exchanges and runs at most
\* once, and a run that reaches END has made exactly R Pro turns, R Con
\* turns and one Moderator turn, after which nothing can run.
C2_ExactlyRExchangesThenOneModerator ==
    max_rounds >= 1 =>
        /\ pro_turns <= max_rounds
        /\ con_turns <= pro_turns
        /\ pro_turns <= con_turns + 1
        /\ (pro_turns = con_turns + 1 <=> pc = "conNode")
        /\ (pc = "proNode" => pro_turns = con_turns /\ pro_turns < max_rounds)
        /\ mod_turns <= 1
        /\ (pc = "moderatorNode" =>
                pro_turns = max_rounds /\ con_turns = max_rounds
                /\ mod_turns = 0)
        /\ (pc = "END" <=> mod_turns = 1)
        /\ (pc = "END" =>
                /\ pro_turns = max_rounds
                /\ con_turns = max_rounds
                /\ llm_calls = 2 * max_rounds + 1
                /\ ~ENABLED Next)

C2_Witness ==
    /\ pc = "END"
    /\ max_rounds >= 2
    /\ pro_turns = max_rounds
    /\ con_turns = max_rounds
    /\ mod_turns = 1

\* C3: every run ends: it reaches END or an exception leaves graph.invoke;
\* a run at END holds the Moderator's result (the Moderator ran once and
\* final_answer is the answer it returned), and a run that raised never
\* reaches END.
C3_EveryRunEnds ==
    /\ <>Ended
    /\ [](pc = "END" =>
            /\ raised = "none"
            /\ mod_turns = 1
            /\ reply.node = "moderatorNode"
            /\ final_answer = reply.text
            /\ final_confidence # None)
    /\ [](raised # "none" => pc # "END" /\ ~ENABLED Next)

C3_Witness ==
    /\ pc = "END"
    /\ mod_turns = 1
    /\ con_turns >= 2
    /\ final_answer # <<>>

\* C4: pro_memory and con_memory never hold more than MEMORY_CAP entries;
\* each is the last MEMORY_CAP snippets its agent appended, in the order
\* they were appended, so once more than MEMORY_CAP were appended it holds
\* exactly MEMORY_CAP.
C4_MemoryKeepsLastCap ==
    /\ Len(pro_memory) <= memory_cap
    /\ Len(con_memory) <= memory_cap
    /\ pro_memory = LastN(pro_appended, memory_cap)
    /\ con_memory = LastN(con_appended, memory_cap)
    /\ (Len(pro_appended) > memory_cap => Len(pro_memory) = memory_cap)
    /\ (Len(con_appended) > memory_cap => Len(con_memory) = memory_cap)

C4_Witness ==
    /\ memory_cap = 2
    /\ Len(con_appended) = 3
    /\ con_appended[1] # con_appended[2]
    /\ con_appended[2] # con_appended[3]
    /\ con_memory = <<con_appended[2], con_appended[3]>>

\* C5: every confidence field that has been written is a float in
\* [0.0, 1.0], whatever confidences the model returned.
C5_ConfidencesInUnitInterval ==
    \A c \in {pro_confidence, con_confidence, final_confidence} :
        c # None => c \in UnitInterval

\* C6: when the latest reply of the model carries a confidence that is no
\* number (a non-numeric text, or none), the run has not raised and the
\* confidence field of that turn holds the role's fallback: 0.75 for Pro,
\* 0.70 for Con, 0.80 for the Moderator.
C6_MalformedConfidenceFallsBack ==
    reply.conf \in {NotANumber, None} /\ reply.node \in Nodes =>
        /\ raised = "none"
        /\ (reply.node = "proNode" => pro_confidence = Float(PRO_FALLBACK))
        /\ (reply.node = "conNode" => con_confidence = Float(CON_FALLBACK))
        /\ (reply.node = "moderatorNode" =>
                final_confidence = Float(MODERATOR_FALLBACK))

\* C7: final_answer is non-empty if and only if the Moderator turn has
\* executed.
C7_FinalAnswerIffModerated ==
    final_answer # <<>> <=> mod_turns >= 1

\* C8: the step in which a node's invoke raises changes nothing of the
\* debate state (no field written, no default text, no turn counted, the
\* position in the graph kept), and after it no step is taken at all: no
\* retry, no later turn, no Moderator.
C8_FailureAborts ==
    [][/\ (raised = "none" /\ raised' # "none" =>
                UNCHANGED <<state, turns, pc>>)
       /\ (raised # "none" => UNCHANGED vars)
      ]_vars

C8_Witness ==
    /\ raised = "GenerationFailure"
    /\ pc = "conNode"
    /\ pro_turns = 2
    /\ con_turns = 1
    /\ mod_turns = 0

\* C9: a run that fails because a persona lacks a required attribute fails
\* before any call reaches the model.
C9_PersonaFailureBeforeAnyCall ==
    raised = "KeyError" => llm_calls = 0

\* C10: the position in the graph only moves along START -> proNode,
\* proNode -> conNode, conNode -> proNode, conNode -> moderatorNode and
\* moderatorNode -> END; a completed Pro turn hands over to Con, the
\* Moderator is entered only by the step that completes a Con turn, and
\* nothing changes once END is reached.
C10_Transitions ==
    [][/\ \/ pc' = pc
          \/ <<pc, pc'>> \in {<<"START", "proNode">>,
                              <<"proNode", "conNode">>,
                              <<"conNode", "proNode">>,
                              <<"conNode", "moderatorNode">>,
                              <<"moderatorNode", "END">>}
       /\ (pro_turns' # pro_turns => pc' = "conNode")
       /\ (pc' = "moderatorNode" /\ pc # "moderatorNode" =>
                pc = "conNode" /\ con_turns' = con_turns + 1)
       /\ (pc = "END" => UNCHANGED vars)
      ]_vars

C10_Witness ==
    /\ pc = "END"
    /\ pro_turns >= 2
    /\ con_turns >= 2
    /\ mod_turns = 1

\* the entry a Con step has just appended
LastEntry(history) == history[Len(history)]

\* C11: debate_history never holds more than 64 entries; only a step that
\* completes a Con turn changes it, by appending one entry at the end and
\* dropping only the oldest entries beyond 64; the entry appended by the
\* k-th Con turn is tagged Round k, so the history holds the entries of the
\* last min(k, 64) rounds in order.
C11_HistoryBoundedAndTagged ==
    /\ [](/\ Len(debate_history) <= HISTORY_CAP
          /\ Len(debate_history) = Min(con_turns, HISTORY_CAP)
          /\ \A i \in 1..Len(debate_history) :
                debate_history[i].round
                    = con_turns - Len(debate_history) + i)
    /\ [][/\ (con_turns' = con_turns => debate_history' = debate_history)
          /\ (con_turns' # con_turns =>
                /\ debate_history' # <<>>
                /\ LastEntry(debate_history').round = con_turns'
                /\ debate_history' =
                      LastN(Append(debate_history,
                                   LastEntry(debate_history')),
                            HISTORY_CAP))
         ]_vars

C11_Witness ==
    /\ con_turns = HISTORY_CAP + 1
    /\ Len(debate_history) = HISTORY_CAP
    /\ debate_history[1].round = 2
    /\ debate_history[HISTORY_CAP].round = HISTORY_CAP + 1

\* a step in which the chain of `node` is invoked with a rendered prompt
Invokes(node) == llm_calls' = llm_calls + 1 /\ request'.node = node

\* C12: in every request rendered for a Pro or a Con turn, the opponent field
\* is "(none)" when the opponent's latest argument is empty and the memory
\* field is "(none)" when the agent's memory is empty, and neither field is
\* ever the empty string.
C12_SentinelForEmptyFields ==
    [][/\ (Invokes("proNode") =>
            /\ (con_challenge = <<>> => request'.opponent = NONE_SENTINEL)
            /\ request'.opponent # <<>>)
       /\ (Invokes("conNode") =>
            /\ (pro_answer = <<>> => request'.pro_answer = NONE_SENTINEL)
            /\ request'.pro_answer # <<>>)
       /\ (variant = "To_Implement" /\ Invokes("proNode") =>
            /\ (pro_memory = <<>> => request'.memory = NONE_SENTINEL)
            /\ request'.memory # <<>>)
       /\ (variant = "To_Implement" /\ Invokes("conNode") =>
            /\ (con_memory = <<>> => request'.memory = NONE_SENTINEL)
            /\ request'.memory # <<>>)
      ]_vars

\* min(1, max(0, x)), in hundredths
Clamp(v) == IF v < 0 THEN 0 ELSE IF v > 100 THEN 100 ELSE v

\* C13: for a numeric raw confidence x, normalisation returns
\* min(1, max(0, x)) as a float: 0 below 0, 1 above 1, x itself in between;
\* and normalising the result again returns the result.
C13_NormalizeClampsAndIsIdempotent ==
    call.fn = "normalize" /\ call.x.t \in {"float", "numstr"} =>
        /\ result = Float(Clamp(call.x.v))
        /\ (call.x.v < 0 => result = Float(0))
        /\ (call.x.v > 100 => result = Float(100))
        /\ (call.x.v \in 0..100 => result.v = call.x.v)
        /\ normalize(result, call.fallback) = result

C13_Witness ==
    /\ call.fn = "normalize"
    /\ call.x = Float(100 + ConfidenceSpread)
    /\ result = Float(100)

\* C20: cap_memory_list(list, cap) is the suffix of the list of length
\* min(cap, length of list), for every list and every cap >= 0, so it never
\* has more than cap entries.
C20_CapMemoryListIsSuffix ==
    call.fn = "cap_memory_list" =>
        /\ result = LastN(call.list, call.cap)
        /\ Len(result) = Min(call.cap, Len(call.list))
        /\ Len(result) <= call.cap

personas == <<pro_persona, con_persona, moderator_persona>>

\* C14: a step that completes a Pro turn changes at most pro_answer,
\* pro_confidence and pro_memory of the debate state; one that completes a
\* Con turn at most con_challenge, con_confidence, con_memory,
\* numberOfRounds and debate_history; one that completes the Moderator turn
\* at most final_answer and final_confidence; no step changes question or a
\* persona.
C14_TurnsChangeOnlyTheirFields ==
    [][/\ (pro_turns' # pro_turns =>
            UNCHANGED <<numberOfRounds, con_challenge, final_answer,
                        con_confidence, final_confidence, con_memory,
                        debate_history>>)
       /\ (con_turns' # con_turns =>
            UNCHANGED <<pro_answer, final_answer, pro_confidence,
                        final_confidence, pro_memory>>)
       /\ (mod_turns' # mod_turns =>
            UNCHANGED <<numberOfRounds, pro_answer, con_challenge,
                        pro_confidence, con_confidence, pro_memory,
                        con_memory, debate_history>>)
       /\ UNCHANGED <<question, personas>>
      ]_vars

C14_Witness ==
    /\ pc = "END"
    /\ variant = "To_Implement"
    /\ pro_memory # <<>>
    /\ con_memory # <<>>
    /\ debate_history # <<>>
    /\ final_answer # <<>>
    /\ final_confidence # Float(0)

C16_AtLeastOneRound ==
    /\ numberOfRounds <= Max(max_rounds, 1)
    /\ (pc = "END" => numberOfRounds = Max(max_rounds, 1))
    /\ (max_rounds = 0 /\ pc \in {"moderatorNode", "END"} =>
          /\ pro_turns = 1
          /\ con_turns = 1
          /\ numberOfRounds = 1)
    /\ (max_rounds = 0 /\ pc = "END" => mod_turns = 1)

C16_Witness ==
    /\ max_rounds = 0
    /\ pc = "END"
    /\ numberOfRounds = 1
    /\ pro_turns = 1
    /\ con_turns = 1
    /\ mod_turns = 1

\* C17: the chain of a Con turn is invoked with the argument the model gave
\* in the Pro turn just before it, and that argument is not empty; the chain
\* of every Pro turn after the first is invoked with the argument of the Con
\* turn just before it ("(none)" standing for an empty one); the Moderator's
\* chain is invoked with the Pro and Con arguments and confidences the last
\* Pro and Con turns stored.
C17_EachTurnReadsThePrecedingArgument ==
    [][/\ (Invokes("conNode") =>
            /\ reply.node = "proNode"
            /\ request'.pro_answer = reply.text
            /\ request'.pro_answer # <<>>)
       /\ (Invokes("proNode") /\ pro_turns > 0 =>
            /\ reply.node = "conNode"
            /\ request'.opponent
                 \in {reply.text, OrElse(reply.text, NONE_SENTINEL)})
       /\ (Invokes("moderatorNode") =>
            /\ reply.node = "conNode"
            /\ request'.opponent = reply.text
            /\ request'.pro_answer = pro_answer
            /\ request'.pro_confidence = pro_confidence
            /\ request'.con_confidence = con_confidence)
       /\ (pro_turns' # pro_turns => pro_answer' = reply'.text)
       /\ (con_turns' # con_turns => con_challenge' = reply'.text)
      ]_vars

\* C18 as stated: the entry appended by the step that completes the Con turn
\* closing round k holds the first 180 characters of the Pro argument of
\* round k, the first 180 characters of the Con argument the model has just
\* given, and the round number after the increment.
C18_SummaryOfBothArguments ==
    [][con_turns' # con_turns =>
         /\ reply.node = "proNode"
         /\ LastEntry(debate_history').pro = Prefix(reply.text, SUMMARY_PREFIX)
         /\ LastEntry(debate_history').con = Prefix(reply'.text, SUMMARY_PREFIX)
         /\ LastEntry(debate_history').round = numberOfRounds'
         /\ numberOfRounds' = numberOfRounds + 1
      ]_vars

\* C18 amended: the same entry holds the first 180 characters of the Pro
\* argument of round k as Pro gave it, the first 180 characters of the new
\* Con argument with its leading and trailing whitespace removed, and the
\* round number after the increment.
C18_SummaryOfProAndStrippedCon ==
    [][con_turns' # con_turns =>
         /\ reply.node = "proNode"
         /\ LastEntry(debate_history').pro = Prefix(reply.text, SUMMARY_PREFIX)
         /\ LastEntry(debate_history').con
              = Prefix(strip(reply'.text), SUMMARY_PREFIX)
         /\ LastEntry(debate_history').round = numberOfRounds'
         /\ numberOfRounds' = numberOfRounds + 1
      ]_vars

C18_Witness ==
    /\ con_turns = 2
    /\ reply = [node |-> "conNode", text |-> LONG_CON, conf |-> Float(50)]
    /\ pro_answer = LONG_PRO
    /\ LastEntry(debate_history).round = 2
    /\ Len(LastEntry(debate_history).pro) = SUMMARY_PREFIX
    /\ Len(LastEntry(debate_history).con) = SUMMARY_PREFIX
    /\ LastEntry(debate_history).pro[1] = " "
    /\ LastEntry(debate_history).con[1] = "c"

\* C19: in To_Implement.py every step that completes a Pro or a Con turn
\* appends the stripped argument to the agent's memory, an empty one
\* included, so after n turns of an agent its memory holds min(n, MEMORY_CAP)
\* entries; when Con is not about to move both memories hold
\* min(numberOfRounds, MEMORY_CAP) entries, and when it is pro_memory holds
\* at most one entry more than con_memory.
C19_EveryTurnAppendsOneEntry ==
    /\ [](variant = "To_Implement" =>
            /\ Len(pro_memory) = Min(pro_turns, memory_cap)
            /\ Len(con_memory) = Min(con_turns, memory_cap)
            /\ Len(con_memory) <= Len(pro_memory)
            /\ Len(pro_memory) <= Len(con_memory) + 1
            /\ (pro_turns = con_turns =>
                  /\ Len(pro_memory) = Min(numberOfRounds, memory_cap)
                  /\ Len(con_memory) = Min(numberOfRounds, memory_cap)))
    /\ [][variant = "To_Implement" =>
            /\ (pro_turns' # pro_turns =>
                  /\ pro_memory' # <<>>
                  /\ pro_memory'[Len(pro_memory')] = strip(reply'.text)
                  /\ pro_memory' = LastN(Append(pro_memory, strip(reply'.text)),
                                         memory_cap))
            /\ (con_turns' # con_turns =>
                  /\ con_memory' # <<>>
                  /\ con_memory'[Len(con_memory')] = strip(reply'.text)
                  /\ con_memory' = LastN(Append(con_memory, strip(reply'.text)),
                                         memory_cap)
                  /\ Len(pro_memory') = Len(con_memory'))
         ]_vars

C19_Witness ==
    /\ variant = "To_Implement"
    /\ memory_cap = 2
    /\ pro_turns = 2
    /\ con_turns = 1
    /\ reply = [node |-> "proNode", text |-> <<>>, conf |-> Float(50)]
    /\ pro_memory = <<<<"a">>, <<>>>>
    /\ con_memory = <<<<>>>>

====
